---- MODULE Spec2Model ----
(***************************************************************************)
(* monaco-remote: the content synchronization controller                   *)
(* (EditorContentManager), the overlay managers (RemoteCursorManager,      *)
(* RemoteSelectionManager) and the overlays (RemoteCursorWidget,           *)
(* RemoteSelection), as a state machine.                                   *)
(*                                                                         *)
(* Three specifications share the state:                                   *)
(*   SpecOverlay  the managers and overlays of one editor, driven through  *)
(*                their public methods and the timers they schedule;       *)
(*   SpecCtl      one controller, its local user and the envelopes,        *)
(*                join and leave notifications a channel hands to it;      *)
(*   SpecNet      two controllers exchanging their messages over a         *)
(*                channel that delivers at least once, in any order.       *)
(***************************************************************************)
EXTENDS Integers, Sequences, FiniteSets, TLC

\* ------------------------------------------------------------------ bounds
MaxCalls   == 5   \* SpecOverlay: calls made on the managers and overlays
MaxSteps   == 4   \* SpecCtl: events the controller handles
MaxLocal   == 1   \* SpecNet: edits the local users make
MaxDeliver == 2   \* SpecNet: deliveries of one envelope (at-least-once)

\* --------------------------------------------------------------- constants
InitialVersion  == 1       \* versionId of a freshly created text model

Controllers == {"A", "B"}
Uids        == {"A", "B", "C"}
NoUid       == "undefined"
Null        == [lineNumber |-> 0, column |-> 0]   \* null / undefined position
NL          == "\n"
InitText    == <<"x", NL, "y">>

VARIABLES
  text,             \* text[c]: the text of c's editor model
  versionId,        \* versionId[c]: model.getVersionId()
  cursorManager,    \* cursorManager[c]: the cursorWidgets map and the widgets built
  selectionManager, \* selectionManager[c]: the remoteSelections map and the selections built
  channel,          \* envelopes handed to channel.sendMessage / held for delivery
  members,          \* the controllers connected to the channel
  sent,             \* sent[c][k]: channel.sendMessage calls of c with a message of kind k
  steps,            \* events handled so far
  localEvents,      \* localEvents[c]: editor events c's local user has raised
  disposer,         \* disposer[c]: c's content-change subscription is in place
  lastOp            \* the handler that ran last and the participant it was about

vars == <<text, versionId, cursorManager, selectionManager, channel, members, sent,
          steps, localEvents, disposer, lastOp>>

\* ------------------------------------------------- the editor's text model
Max(S) == CHOOSE x \in S : \A y \in S : y <= x
Min(S) == CHOOSE x \in S : \A y \in S : x <= y

Position(l, c) == [lineNumber |-> l, column |-> c]

\* number of line breaks among the first n characters
NlCount(t, n) == Cardinality({i \in 1..n : t[i] = NL})

LineCount(t) == 1 + NlCount(t, Len(t))

\* offset at which line l starts (l in 1..LineCount)
LineStart(t, l) ==
  IF l = 1 THEN 0
  ELSE CHOOSE i \in 1..Len(t) : t[i] = NL /\ NlCount(t, i) = l - 1

\* offset just after the last character of line l
LineEnd(t, l) ==
  IF l = LineCount(t) THEN Len(t) ELSE LineStart(t, l + 1) - 1

MaxColumn(t, l) == LineEnd(t, l) - LineStart(t, l) + 1

\* ITextModel.getPositionAt: the offset is clamped into the text
getPositionAt(t, offset) ==
  LET o == Max({0, Min({offset, Len(t)})})
      l == 1 + NlCount(t, o)
  IN Position(l, o - LineStart(t, l) + 1)

\* ITextModel.validatePosition: the position is clamped into the text
validatePosition(t, p) ==
  IF p.lineNumber < 1 THEN Position(1, 1)
  ELSE IF p.lineNumber > LineCount(t)
       THEN Position(LineCount(t), MaxColumn(t, LineCount(t)))
  ELSE Position(p.lineNumber, Max({1, Min({p.column, MaxColumn(t, p.lineNumber)})}))

\* ITextModel.getOffsetAt
getOffsetAt(t, p) ==
  LET q == validatePosition(t, p)
  IN LineStart(t, q.lineNumber) + q.column - 1

\* ------------------------------------------------------ RemoteCursorWidget
\* new RemoteCursorWidget(options): the widget is added to the editor, has no
\* position, no timer, and is not disposed.
NewCursorWidget(uid, tooltips) ==
  [ uid            |-> uid,
    position       |-> Null,
    display        |-> "",
    tooltipNode    |-> tooltips,
    scrollListener |-> tooltips,
    tooltipVisible |-> FALSE,
    hideTimer      |-> FALSE,   \* TRUE: the field holds a timeout's handle
    timers         |-> 0,       \* auto-hide timeouts pending
    pendingShow    |-> 0,       \* setTimeout(showTooltip, 0) callbacks pending
    inEditor       |-> TRUE,    \* editor.addContentWidget / removeContentWidget
    layout         |-> Null,    \* where the editor last laid the widget out
    disposed       |-> FALSE,
    onDisposed     |-> 0 ]      \* times the disposal callback was invoked

\* updatePosition: store the position; layoutContentWidget lays out only a
\* widget the editor still holds.
updatePosition(w, p) ==
  [w EXCEPT !.position = p,
            !.layout   = IF w.inEditor THEN p ELSE @]

\* setPosition: updatePosition, then defer showTooltip when there is a tooltip
Widget_setPosition(w, p) ==
  LET w1 == updatePosition(w, p)
  IN IF w1.tooltipNode THEN [w1 EXCEPT !.pendingShow = @ + 1] ELSE w1

Widget_setOffset(w, t, offset) == Widget_setPosition(w, getPositionAt(t, offset))

Widget_hide(w) == [w EXCEPT !.display = "none"]
Widget_show(w) == [w EXCEPT !.display = "inherit"]

\* showTooltip, run by the deferred callback: the timeout whose handle
\* hideTimer holds is cleared, or else the tooltip is made visible; a new
\* timeout is started and hideTimer holds its handle.
showTooltip_stacking(w) ==
  [w EXCEPT !.pendingShow    = @ - 1,
            !.tooltipVisible = IF w.hideTimer THEN @ ELSE w.tooltipNode,
            !.timers         = @ + 1,
            !.hideTimer      = TRUE]

showTooltip(w) ==
  [w EXCEPT !.pendingShow    = @ - 1,
            !.tooltipVisible = IF w.hideTimer THEN @ ELSE w.tooltipNode,
            !.timers         = (IF w.hideTimer THEN @ - 1 ELSE @) + 1,
            !.hideTimer      = TRUE]

\* the auto-hide timeout's callback
hideTimerFired(w) ==
  [w EXCEPT !.tooltipVisible = FALSE, !.hideTimer = FALSE, !.timers = @ - 1]

\* ----------------------------------------------------- RemoteCursorManager
\* cm = [cursorWidgets: uid -> index into widgets (0: no entry), widgets: Seq]
NewCursorManager ==
  [cursorWidgets |-> [u \in Uids |-> 0], widgets |-> <<>>]

RECURSIVE removeCursor(_, _)

\* RemoteCursorWidget.dispose of widget i; its onDisposed callback is the
\* manager's removeCursor(uid).
Widget_dispose_twice(cm, i) ==
  removeCursor([cm EXCEPT !.widgets[i].inEditor = FALSE,
                          !.widgets[i].scrollListener = FALSE,
                          !.widgets[i].disposed = TRUE,
                          !.widgets[i].onDisposed = @ + 1],
               cm.widgets[i].uid)

Widget_dispose(cm, i) ==
  IF cm.widgets[i].disposed THEN cm
  ELSE removeCursor([cm EXCEPT !.widgets[i].inEditor = FALSE,
                               !.widgets[i].scrollListener = FALSE,
                               !.widgets[i].disposed = TRUE,
                               !.widgets[i].onDisposed = @ + 1],
                    cm.widgets[i].uid)

removeCursor(cm, id) ==
  LET i   == cm.cursorWidgets[id]
      cm1 == IF i # 0 /\ ~cm.widgets[i].disposed THEN Widget_dispose(cm, i) ELSE cm
  IN [cm1 EXCEPT !.cursorWidgets[id] = 0]

addCursor_always_new(cm, uid) ==
  [cursorWidgets |-> [cm.cursorWidgets EXCEPT ![uid] = Len(cm.widgets) + 1],
   widgets       |-> Append(cm.widgets, NewCursorWidget(uid, TRUE))]

addCursor(cm, uid) ==
  IF cm.cursorWidgets[uid] # 0 THEN cm
  ELSE [cursorWidgets |-> [cm.cursorWidgets EXCEPT ![uid] = Len(cm.widgets) + 1],
        widgets       |-> Append(cm.widgets, NewCursorWidget(uid, TRUE))]

setCursorPosition(cm, id, p) ==
  LET i == cm.cursorWidgets[id]
  IN IF i = 0 THEN cm ELSE [cm EXCEPT !.widgets[i] = Widget_setPosition(@, p)]

setCursorOffset(cm, t, id, offset) ==
  LET i == cm.cursorWidgets[id]
  IN IF i = 0 THEN cm ELSE [cm EXCEPT !.widgets[i] = Widget_setOffset(@, t, offset)]

showCursor(cm, id) ==
  LET i == cm.cursorWidgets[id]
  IN IF i = 0 THEN cm ELSE [cm EXCEPT !.widgets[i] = Widget_show(@)]

hideCursor(cm, id) ==
  LET i == cm.cursorWidgets[id]
  IN IF i = 0 THEN cm ELSE [cm EXCEPT !.widgets[i] = Widget_hide(@)]

\* --------------------------------------------------------- RemoteSelection
NoRange == <<>>

NewSelection(uid) ==
  [ uid           |-> uid,
    startPosition |-> Null,
    endPosition   |-> Null,
    decorations   |-> NoRange,  \* the decoration the editor renders, if any
    styleElement  |-> TRUE,     \* the style tag is in the document head
    disposed      |-> FALSE,
    onDisposed    |-> 0 ]

Before(a, b) ==
  a.lineNumber < b.lineNumber \/ (a.lineNumber = b.lineNumber /\ a.column <= b.column)

swapIfNeeded_never(start, end) == [start |-> start, end |-> end]

swapIfNeeded(start, end) ==
  IF Before(start, end) THEN [start |-> start, end |-> end]
  ELSE [start |-> end, end |-> start]

\* render: nothing without both positions, else one decoration over the range
render(s) ==
  IF s.startPosition = Null \/ s.endPosition = Null THEN s
  ELSE [s EXCEPT !.decorations = <<[start |-> s.startPosition, end |-> s.endPosition]>>]

Selection_setPositions(s, start, end) ==
  LET ordered == swapIfNeeded(start, end)
  IN render([s EXCEPT !.startPosition = ordered.start, !.endPosition = ordered.end])

Selection_setOffsets(s, t, start, end) ==
  Selection_setPositions(s, getPositionAt(t, start), getPositionAt(t, end))

Selection_show(s) == render(s)
Selection_hide_forgets(s) ==
  [s EXCEPT !.decorations = NoRange, !.startPosition = Null, !.endPosition = Null]

Selection_hide(s) == [s EXCEPT !.decorations = NoRange]

\* -------------------------------------------------- RemoteSelectionManager
NewSelectionManager ==
  [remoteSelections |-> [u \in Uids |-> 0], selections |-> <<>>]

RECURSIVE removeSelection(_, _)

\* RemoteSelection.dispose of selection i; its onDisposed callback is the
\* manager's removeSelection(uid).
Selection_dispose(sm, i) ==
  IF sm.selections[i].disposed THEN sm
  ELSE removeSelection([sm EXCEPT !.selections[i] =
                          [Selection_hide(@) EXCEPT !.styleElement = FALSE,
                                                    !.disposed = TRUE,
                                                    !.onDisposed = @ + 1]],
                       sm.selections[i].uid)

\* removeSelection disposes the entry's selection and keeps the entry
removeSelection(sm, id) ==
  LET i == sm.remoteSelections[id]
  IN IF i # 0 /\ ~sm.selections[i].disposed THEN Selection_dispose(sm, i) ELSE sm

addSelection(sm, uid) ==
  IF sm.remoteSelections[uid] # 0 THEN sm
  ELSE [remoteSelections |-> [sm.remoteSelections EXCEPT ![uid] = Len(sm.selections) + 1],
        selections       |-> Append(sm.selections, NewSelection(uid))]

setSelectionOffsets(sm, t, id, start, end) ==
  LET i == sm.remoteSelections[id]
  IN IF i = 0 THEN sm
     ELSE [sm EXCEPT !.selections[i] = Selection_setOffsets(@, t, start, end)]

setSelectionPositions(sm, id, start, end) ==
  LET i == sm.remoteSelections[id]
  IN IF i = 0 THEN sm
     ELSE [sm EXCEPT !.selections[i] = Selection_setPositions(@, start, end)]

showSelection(sm, id) ==
  LET i == sm.remoteSelections[id]
  IN IF i = 0 THEN sm ELSE [sm EXCEPT !.selections[i] = Selection_show(@)]

hideSelection(sm, id) ==
  LET i == sm.remoteSelections[id]
  IN IF i = 0 THEN sm ELSE [sm EXCEPT !.selections[i] = Selection_hide(@)]

\* ------------------------------------------------ the editor (monaco) model
\* new Range(...): the end points are put in order
Range(sl, sc, el, ec) ==
  IF sl > el \/ (sl = el /\ sc > ec)
  THEN [startLineNumber |-> el, startColumn |-> ec, endLineNumber |-> sl, endColumn |-> sc]
  ELSE [startLineNumber |-> sl, startColumn |-> sc, endLineNumber |-> el, endColumn |-> ec]

RangeStart(r) == Position(r.startLineNumber, r.startColumn)
RangeEnd(r)   == Position(r.endLineNumber, r.endColumn)

\* the text after one edit operation {range, text}: the range is validated
\* against the text and replaced
EditText(t, range, txt) ==
  LET so == getOffsetAt(t, RangeStart(range))
      eo == getOffsetAt(t, RangeEnd(range))
  IN SubSeq(t, 1, so) \o txt \o SubSeq(t, eo + 1, Len(t))

\* the IModelContentChange the model reports for one edit operation
ContentChange(t, range, txt) ==
  LET s  == validatePosition(t, RangeStart(range))
      e  == validatePosition(t, RangeEnd(range))
      so == getOffsetAt(t, s)
      eo == getOffsetAt(t, e)
  IN [range       |-> Range(s.lineNumber, s.column, e.lineNumber, e.column),
      rangeOffset |-> so,
      rangeLength |-> eo - so,
      text        |-> txt]

\* ------------------------------------------------------------- the channel
\* pako.deflate(JSON.stringify(m)) and JSON.parse(pako.inflate(z))
deflate(m) == [z |-> m]
inflate(z) == z.z

Kinds == {"CodeSnippet", "CursorPosition", "CursorSelection"}

\* an envelope the channel holds for participant `to`: deliveries counts the
\* times it was handed to the receiver, applied the deliveries that edited the text
Envelope(id, uid, to, message) ==
  [id |-> id, uid |-> uid, to |-> to, message |-> message, deliveries |-> 0, applied |-> 0]

\* channel.sendMessage({message}) of c's n-th message: the channel holds one
\* envelope, labelled with the sender's id, for every other member
ChannelSend(ch, mem, c, n, message) ==
  ch \cup {Envelope(n, c, d, message) : d \in mem \ {c}}

\* -------------------------------------------------- EditorContentManager
\* The handlers work on the controller's state st:
\*   [text, versionId, cursorManager, selectionManager, channel, applied]
StateOf(c) ==
  [c                |-> c,
   text             |-> text[c],
   versionId        |-> versionId[c],
   cursorManager    |-> cursorManager[c],
   selectionManager |-> selectionManager[c],
   channel          |-> channel,
   members          |-> members,
   sent             |-> sent[c],
   disposer         |-> disposer[c],
   applied          |-> FALSE]

SentCount(snt) == snt["CodeSnippet"] + snt["CursorPosition"] + snt["CursorSelection"]

sendMessage(st, m) ==
  IF st.c \notin st.members THEN st
  ELSE
  [st EXCEPT !.channel = ChannelSend(@, st.members, st.c, SentCount(st.sent) + 1, deflate(m)),
             !.sent[m.messageType] = @ + 1]

editorCursorPositionChangeListener(st, event) ==
  sendMessage(st, [messageType |-> "CursorPosition", data |-> event])

editorCursorSelectionChangedListener(st, event) ==
  sendMessage(st, [messageType |-> "CursorSelection", data |-> event])

sendCodeSnippet_always(st, event) ==
  sendMessage(st, [messageType |-> "CodeSnippet", data |-> event])

sendCodeSnippet(st, event) ==
  IF event.versionId < st.versionId THEN st
  ELSE sendMessage(st, [messageType |-> "CodeSnippet", data |-> event])

\* editor.executeEdits(uid, [{range, text}]): the model's text is edited, its
\* version goes up by one and the content-change listener, while it is
\* subscribed, runs before executeEdits returns
executeEdits(st, range, txt) ==
  LET change == ContentChange(st.text, range, txt)
      st1    == [st EXCEPT !.text = EditText(st.text, range, txt),
                           !.versionId = @ + 1]
  IN IF st.disposer
     THEN sendCodeSnippet(st1, [versionId |-> st1.versionId, changes |-> <<change>>])
     ELSE st1

\* the body of updateContent's forEach, for the changes from the k-th on
RECURSIVE forEachChange(_, _, _, _)
forEachChange_cursor_at_start(st, uid, changes, k) ==
  IF k > Len(changes) THEN st
  ELSE LET change == changes[k]
           r      == change.range
           st1    == executeEdits(st, Range(r.startLineNumber, r.startColumn,
                                            r.endLineNumber, r.endColumn),
                                  change.text)
           p      == getPositionAt(st1.text, change.rangeOffset)
           st2    == [st1 EXCEPT !.cursorManager = setCursorPosition(@, uid, p),
                                 !.applied = TRUE]
       IN forEachChange(st2, uid, changes, k + 1)

forEachChange(st, uid, changes, k) ==
  IF k > Len(changes) THEN st
  ELSE LET change == changes[k]
           r      == change.range
           st1    == executeEdits(st, Range(r.startLineNumber, r.startColumn,
                                            r.endLineNumber, r.endColumn),
                                  change.text)
           p      == getPositionAt(st1.text, change.rangeOffset + Len(change.text))
           st2    == [st1 EXCEPT !.cursorManager = setCursorPosition(@, uid, p),
                                 !.applied = TRUE]
       IN forEachChange(st2, uid, changes, k + 1)

updateContent_accept_equal(st, uid, event) ==
  IF event.versionId < st.versionId THEN st
  ELSE forEachChange(st, uid, event.changes, 1)

updateContent(st, uid, event) ==
  IF event.versionId <= st.versionId THEN st
  ELSE forEachChange(st, uid, event.changes, 1)

updateCursorPosition_everyone(st, uid, event) ==
  [st EXCEPT !.cursorManager =
     setCursorOffset(setCursorOffset(@, st.text, "B", getOffsetAt(st.text, event.position)),
                     st.text, "C", getOffsetAt(st.text, event.position))]

updateCursorPosition(st, uid, event) ==
  [st EXCEPT !.cursorManager =
     setCursorOffset(@, st.text, uid, getOffsetAt(st.text, event.position))]

\* new Selection(...).getStartPosition() / getEndPosition(): the end points in order
SelectionStart(s) ==
  swapIfNeeded(Position(s.selectionStartLineNumber, s.selectionStartColumn),
               Position(s.positionLineNumber, s.positionColumn)).start
SelectionEnd(s) ==
  swapIfNeeded(Position(s.selectionStartLineNumber, s.selectionStartColumn),
               Position(s.positionLineNumber, s.positionColumn)).end

updateSelection(st, uid, event) ==
  [st EXCEPT !.selectionManager =
     setSelectionOffsets(@, st.text, uid,
                         getOffsetAt(st.text, SelectionStart(event.selection)),
                         getOffsetAt(st.text, SelectionEnd(event.selection)))]

receiver_any_uid(st, message) ==
  LET st1 == [st EXCEPT !.cursorManager    = addCursor(@, "C"),
                        !.selectionManager = addSelection(@, "C")]
      messageDate == inflate(message.message)
  IN CASE messageDate.messageType = "CodeSnippet" ->
            updateContent(st1, "C", messageDate.data)
       [] messageDate.messageType = "CursorPosition" ->
            updateCursorPosition(st1, "C", messageDate.data)
       [] messageDate.messageType = "CursorSelection" ->
            updateSelection(st1, "C", messageDate.data)
       [] OTHER -> st1

receiver_unknown_as_cursor(st, message) ==
  IF message.uid = NoUid THEN st
  ELSE LET st1 == [st EXCEPT !.cursorManager    = addCursor(@, message.uid),
                             !.selectionManager = addSelection(@, message.uid)]
           messageDate == inflate(message.message)
       IN CASE messageDate.messageType = "CodeSnippet" ->
                 updateContent(st1, message.uid, messageDate.data)
            [] messageDate.messageType = "CursorPosition" ->
                 updateCursorPosition(st1, message.uid, messageDate.data)
            [] messageDate.messageType = "CursorSelection" ->
                 updateSelection(st1, message.uid, messageDate.data)
            [] OTHER -> [st1 EXCEPT !.cursorManager =
                                      setCursorOffset(@, st1.text, message.uid, 0)]

receiver(st, message) ==
  IF message.uid = NoUid THEN st
  ELSE LET st1 == [st EXCEPT !.cursorManager    = addCursor(@, message.uid),
                             !.selectionManager = addSelection(@, message.uid)]
           messageDate == inflate(message.message)
       IN CASE messageDate.messageType = "CodeSnippet" ->
                 updateContent(st1, message.uid, messageDate.data)
            [] messageDate.messageType = "CursorPosition" ->
                 updateCursorPosition(st1, message.uid, messageDate.data)
            [] messageDate.messageType = "CursorSelection" ->
                 updateSelection(st1, message.uid, messageDate.data)
            [] OTHER -> st1

onMemberJoined(st, memberId) ==
  [st EXCEPT !.cursorManager    = addCursor(@, memberId),
             !.selectionManager = addSelection(@, memberId)]

onMemberLeft(st, memberId) ==
  [st EXCEPT !.cursorManager    = removeCursor(@, memberId),
             !.selectionManager = removeSelection(@, memberId)]


\* ------------------------------------------------------------------ inputs
Positions == {Position(1, 2), Position(2, 1)}
Offsets   == {1, 2}
Token(c)  == IF c = "A" THEN "a" ELSE "b"

\* what the local user of c can type: one insertion, or two at once (two
\* carets); the model reports the changes of one edit from the last to the first
LocalEdits(c) ==
  { <<[range |-> Range(1, 1, 1, 1), text |-> <<Token(c)>>]>>,
    <<[range |-> Range(2, 1, 2, 1), text |-> <<Token(c)>>],
      [range |-> Range(1, 1, 1, 1), text |-> <<Token(c)>>]>> }

LocalSelections ==
  { [selectionStartLineNumber |-> 2, selectionStartColumn |-> 1,
     positionLineNumber |-> 1, positionColumn |-> 1] }

\* lastOp: the handler or method, the controller, the participant id it was
\* given, and the overlay an add returned or a timer belongs to (0: none) or,
\* for the content-change listener, the version its event carried
OpRet(name, c, uid, ret) == [op |-> name, c |-> c, uid |-> uid, ret |-> ret]
Op(name, c, uid) == OpRet(name, c, uid, 0)

\* ---------------------------------------------------------------- actions
\* the constructor returns before it creates the managers and subscribes its
\* listeners when it is given no channel; members holds the controllers that
\* were given one
Subscribed_always(c) == TRUE

Subscribed(c) == c \in members

\* the value of a manager field the constructor never assigned
Undefined == [undefined |-> TRUE]

InitState ==
  /\ text             = [c \in Controllers |-> InitText]
  /\ versionId        = [c \in Controllers |-> InitialVersion]
  /\ cursorManager    = [c \in Controllers |->
                           IF Subscribed(c) THEN NewCursorManager ELSE Undefined]
  /\ selectionManager = [c \in Controllers |->
                           IF Subscribed(c) THEN NewSelectionManager ELSE Undefined]
  /\ channel          = {}
  /\ sent             = [c \in Controllers |-> [k \in Kinds |-> 0]]
  /\ steps            = 0
  /\ localEvents      = [c \in Controllers |-> 0]
  /\ disposer         = [c \in Controllers |-> Subscribed(c)]
  /\ lastOp           = Op("constructor", "A", NoUid)

\* the state a handler leaves behind becomes the state of controller c
Commit(c, st) ==
  /\ text'             = [text EXCEPT ![c] = st.text]
  /\ versionId'        = [versionId EXCEPT ![c] = st.versionId]
  /\ cursorManager'    = [cursorManager EXCEPT ![c] = st.cursorManager]
  /\ selectionManager' = [selectionManager EXCEPT ![c] = st.selectionManager]
  /\ sent'             = [sent EXCEPT ![c] = st.sent]
  /\ UNCHANGED <<members, disposer>>

\* the channel invokes c's onReceiver listener with envelope m
Receive(c, m) ==
  /\ m.to = c
  /\ LET st == receiver(StateOf(c), m)
     IN /\ Commit(c, st)
        /\ channel' = (st.channel \ {m}) \cup
                         {[m EXCEPT !.deliveries = @ + 1,
                                    !.applied = IF st.applied THEN @ + 1 ELSE @]}
  /\ lastOp' = Op("receiver", c, m.uid)
  /\ UNCHANGED localEvents

\* the local user edits the text: the model applies the edit operations as one
\* edit, its version goes up by one, and onDidChangeModelContent runs
LocalEdit(c, edits) ==
  /\ LET t0      == text[c]
         changes == [k \in 1..Len(edits) |-> ContentChange(t0, edits[k].range, edits[k].text)]
         t1      == IF Len(edits) = 1 THEN EditText(t0, edits[1].range, edits[1].text)
                    ELSE EditText(EditText(t0, edits[1].range, edits[1].text),
                                  edits[2].range, edits[2].text)
         st0     == [StateOf(c) EXCEPT !.text = t1, !.versionId = @ + 1]
         st      == IF disposer[c]
                    THEN sendCodeSnippet(st0, [versionId |-> st0.versionId,
                                               changes |-> changes])
                    ELSE st0
     IN /\ Commit(c, st)
        /\ channel' = st.channel
  /\ localEvents' = [localEvents EXCEPT ![c] = @ + 1]
  /\ lastOp' = IF disposer[c]
               THEN OpRet("onDidChangeModelContent", c, NoUid, versionId[c] + 1)
               ELSE lastOp

\* the listener is handed a content-change event of version v after the model
\* has moved past v (another listener of the editor edited the model before
\* this one ran)
StaleContentChange(c, v, edits) ==
  /\ disposer[c]
  /\ v < versionId[c]
  /\ LET changes == [k \in 1..Len(edits) |->
                      ContentChange(text[c], edits[k].range, edits[k].text)]
         st      == sendCodeSnippet(StateOf(c), [versionId |-> v, changes |-> changes])
     IN /\ Commit(c, st)
        /\ channel' = st.channel
  /\ localEvents' = [localEvents EXCEPT ![c] = @ + 1]
  /\ lastOp' = OpRet("onDidChangeModelContent", c, NoUid, v)

LocalCursor(c, p) ==
  /\ LET st == IF Subscribed(c)
               THEN editorCursorPositionChangeListener(StateOf(c), [position |-> p])
               ELSE StateOf(c)
     IN /\ Commit(c, st)
        /\ channel' = st.channel
  /\ localEvents' = [localEvents EXCEPT ![c] = @ + 1]
  /\ lastOp' = IF Subscribed(c) THEN Op("onDidChangeCursorPosition", c, NoUid) ELSE lastOp

LocalSelection(c, sel) ==
  /\ LET st == IF Subscribed(c)
               THEN editorCursorSelectionChangedListener(StateOf(c), [selection |-> sel])
               ELSE StateOf(c)
     IN /\ Commit(c, st)
        /\ channel' = st.channel
  /\ localEvents' = [localEvents EXCEPT ![c] = @ + 1]
  /\ lastOp' = IF Subscribed(c) THEN Op("onDidChangeCursorSelection", c, NoUid) ELSE lastOp

\* EditorContentManager.dispose: the content-change subscription is disposed
\* (a second dispose of it does nothing; without a channel there is none)
dispose_nothing(dsp, c) == dsp

dispose(dsp, c) == [dsp EXCEPT ![c] = FALSE]

Dispose(c) ==
  /\ disposer' = dispose(disposer, c)
  /\ lastOp' = Op("dispose", c, NoUid)
  /\ UNCHANGED <<text, versionId, cursorManager, selectionManager, channel, members,
                 sent, localEvents>>

MemberJoined(c, u) ==
  /\ Commit(c, onMemberJoined(StateOf(c), u))
  /\ lastOp' = Op("onMemberJoined", c, u)
  /\ UNCHANGED <<channel, localEvents>>

MemberLeft(c, u) ==
  /\ Commit(c, onMemberLeft(StateOf(c), u))
  /\ lastOp' = Op("onMemberLeft", c, u)
  /\ UNCHANGED <<channel, localEvents>>

\* ------------------------------------------------- SpecNet: two controllers
\* Two controllers on one channel. Each local edit is sent to the other
\* participant; the channel delivers every envelope at least once, up to
\* MaxDeliver times, in any order.
InitNet == members = Controllers /\ InitState

NextNet ==
  \/ \E c \in Controllers : \E edits \in LocalEdits(c) :
       /\ localEvents["A"] + localEvents["B"] < MaxLocal
       /\ LocalEdit(c, edits)
       /\ UNCHANGED steps
  \/ \E m \in channel :
       /\ m.deliveries < MaxDeliver
       /\ Receive(m.to, m)
       /\ UNCHANGED steps

SpecNet == InitNet /\ [][NextNet]_vars

\* the channel hands an envelope it has not delivered yet to its receiver
FirstDelivery ==
  \E m \in channel :
    /\ m.deliveries = 0
    /\ Receive(m.to, m)
    /\ UNCHANGED steps

\* SpecNet with a channel that eventually delivers every envelope: weak
\* fairness of FirstDelivery, which is enabled exactly while an envelope has
\* not been delivered
SpecNetFair ==
  SpecNet /\ ([]<>(\A m \in channel : m.deliveries > 0) \/ []<><<FirstDelivery>>_vars)

\* ------------------------------ SpecCtl: one controller and its environment
\* What remote participants can send to controller A: edits produced against
\* the remote document at versions from the local one upwards, with one change
\* or two, a cursor position, a selection, and a message of a kind this
\* controller does not know; an edit also without a sender id; and a cursor
\* position of a second participant. Controller B was built without a channel
\* and is only ever disposed.
EnvVersions == InitialVersion .. InitialVersion + 2

EnvChanges ==
  { <<[range |-> Range(1, 1, 1, 1), rangeOffset |-> 0, rangeLength |-> 0, text |-> <<"b">>]>>,
    <<[range |-> Range(2, 1, 2, 1), rangeOffset |-> 2, rangeLength |-> 0, text |-> <<"b", "b">>],
      [range |-> Range(1, 1, 1, 1), rangeOffset |-> 0, rangeLength |-> 0, text |-> <<"b">>]>> }

EnvEdits ==
  { [messageType |-> "CodeSnippet", data |-> [versionId |-> v, changes |-> ch]] :
      v \in EnvVersions, ch \in EnvChanges }

EnvMessages ==
  EnvEdits
  \cup { [messageType |-> "CursorPosition", data |-> [position |-> Position(2, 1)]] }
  \cup { [messageType |-> "CursorSelection", data |-> [selection |-> sel]] :
           sel \in LocalSelections }
  \cup { [messageType |-> "Presence", data |-> [online |-> TRUE]] }

EnvEnvelopes ==
  { Envelope(0, "B", "A", deflate(msg)) : msg \in EnvMessages }
  \cup { Envelope(0, NoUid, "A", deflate(msg)) : msg \in EnvEdits }
  \cup { Envelope(0, "C", "A",
                  deflate([messageType |-> "CursorPosition",
                           data |-> [position |-> Position(1, 2)]])) }

InitCtl == members = {"A"} /\ InitState

\* the first delivery of a remote participant's envelope
Deliver(m) ==
  /\ \A n \in channel : [n EXCEPT !.deliveries = 0, !.applied = 0] # m
  /\ Receive("A", m)

\* another delivery of an envelope delivered before
Redeliver(m) ==
  /\ m \in channel
  /\ Receive("A", m)

\* one more event handled, of at most MaxSteps
Tick == steps < MaxSteps /\ steps' = steps + 1

NextCtl ==
  \/ \E m \in EnvEnvelopes : Tick /\ Deliver(m)
  \/ \E m \in channel : Tick /\ Redeliver(m)
  \/ \E u \in {"B", "C"} : Tick /\ MemberJoined("A", u)
  \/ \E u \in {"B", "C"} : Tick /\ MemberLeft("A", u)
  \/ \E edits \in LocalEdits("A") : Tick /\ LocalEdit("A", edits)
  \/ \E v \in EnvVersions : \E edits \in LocalEdits("A") :
       Tick /\ StaleContentChange("A", v, edits)
  \/ \E p \in {Position(1, 2)} : Tick /\ LocalCursor("A", p)
  \/ \E sel \in LocalSelections : Tick /\ LocalSelection("A", sel)
  \/ \E c \in Controllers : Tick /\ Dispose(c)

SpecCtl == InitCtl /\ [][NextCtl]_vars

\* ------------------------- SpecLocal: controllers constructed without a channel
\* Two editors, each with a controller that was given no channel; the local
\* users edit, move the cursor and select.
InitLocal ==
  /\ text             = [c \in Controllers |-> InitText]
  /\ versionId        = [c \in Controllers |-> InitialVersion]
  /\ cursorManager    = [c \in Controllers |-> Undefined]
  /\ selectionManager = [c \in Controllers |-> Undefined]
  /\ channel          = {}
  /\ members          = {}
  /\ sent             = [c \in Controllers |-> [k \in Kinds |-> 0]]
  /\ steps            = 0
  /\ localEvents      = [c \in Controllers |-> 0]
  /\ disposer         = [c \in Controllers |-> FALSE]
  /\ lastOp           = Op("constructor", "A", NoUid)

NextLocal ==
  \/ \E c \in Controllers : \E edits \in LocalEdits(c) : Tick /\ LocalEdit(c, edits)
  \/ \E c \in Controllers : \E p \in Positions : Tick /\ LocalCursor(c, p)
  \/ \E c \in Controllers : \E sel \in LocalSelections : Tick /\ LocalSelection(c, sel)

SpecLocal == InitLocal /\ [][NextLocal]_vars

\* --------------------------- SpecOverlay: the managers of one editor, called
\* directly. The editor is A's; its text does not change. add returns the
\* overlay, so a caller can also call the overlay's own methods, whether the
\* manager still holds it or not.
InitOverlay == members = {"A"} /\ InitState

OverlayUids == {"B", "C"}

Frame == UNCHANGED <<text, versionId, channel, members, sent, localEvents, disposer>>

\* one more call, of at most MaxCalls
Call == steps < MaxCalls /\ steps' = steps + 1

\* a call that leaves the cursor manager as cm; i is the overlay the call was
\* made on or, for an add, the overlay it returned
CursorCall(name, u, i, cm) ==
  /\ Call
  /\ cursorManager' = [cursorManager EXCEPT !["A"] = cm]
  /\ lastOp' = OpRet(name, "A", u, i)
  /\ UNCHANGED selectionManager
  /\ Frame

SelectionCall(name, u, i, sm) ==
  /\ Call
  /\ selectionManager' = [selectionManager EXCEPT !["A"] = sm]
  /\ lastOp' = OpRet(name, "A", u, i)
  /\ UNCHANGED cursorManager
  /\ Frame

CM == cursorManager["A"]
SM == selectionManager["A"]

CursorManagerCall ==
  \E u \in OverlayUids :
    \/ CursorCall("addCursor", u, addCursor(CM, u).cursorWidgets[u], addCursor(CM, u))
    \/ CursorCall("removeCursor", u, 0, removeCursor(CM, u))
    \/ \E p \in Positions : CursorCall("setCursorPosition", u, 0, setCursorPosition(CM, u, p))
    \/ \E o \in Offsets : CursorCall("setCursorOffset", u, 0, setCursorOffset(CM, text["A"], u, o))
    \/ CursorCall("showCursor", u, 0, showCursor(CM, u))
    \/ CursorCall("hideCursor", u, 0, hideCursor(CM, u))

\* calls on widget i itself
WidgetCall ==
  \E i \in 1..Len(CM.widgets) :
    \/ CursorCall("widget.dispose", CM.widgets[i].uid, i, Widget_dispose(CM, i))
    \/ \E p \in Positions :
         CursorCall("widget.setPosition", CM.widgets[i].uid, i,
                    [CM EXCEPT !.widgets[i] = Widget_setPosition(@, p)])
    \/ \E o \in Offsets :
         CursorCall("widget.setOffset", CM.widgets[i].uid, i,
                    [CM EXCEPT !.widgets[i] = Widget_setOffset(@, text["A"], o)])
    \/ CursorCall("widget.show", CM.widgets[i].uid, i, [CM EXCEPT !.widgets[i] = Widget_show(@)])
    \/ CursorCall("widget.hide", CM.widgets[i].uid, i, [CM EXCEPT !.widgets[i] = Widget_hide(@)])

SelectionManagerCall ==
  \E u \in OverlayUids :
    \/ SelectionCall("addSelection", u, addSelection(SM, u).remoteSelections[u], addSelection(SM, u))
    \/ SelectionCall("removeSelection", u, 0, removeSelection(SM, u))
    \/ \E a \in Positions, b \in Positions :
         SelectionCall("setSelectionPositions", u, 0, setSelectionPositions(SM, u, a, b))
    \/ \E a \in Offsets, b \in Offsets :
         SelectionCall("setSelectionOffsets", u, 0, setSelectionOffsets(SM, text["A"], u, a, b))
    \/ SelectionCall("showSelection", u, 0, showSelection(SM, u))
    \/ SelectionCall("hideSelection", u, 0, hideSelection(SM, u))

\* calls on selection i itself
RemoteSelectionCall ==
  \E i \in 1..Len(SM.selections) :
    \/ SelectionCall("selection.dispose", SM.selections[i].uid, i, Selection_dispose(SM, i))
    \/ \E a \in Positions, b \in Positions :
         SelectionCall("selection.setPositions", SM.selections[i].uid, i,
                       [SM EXCEPT !.selections[i] = Selection_setPositions(@, a, b)])
    \/ \E a \in Offsets, b \in Offsets :
         SelectionCall("selection.setOffsets", SM.selections[i].uid, i,
                       [SM EXCEPT !.selections[i] = Selection_setOffsets(@, text["A"], a, b)])
    \/ SelectionCall("selection.show", SM.selections[i].uid, i,
                     [SM EXCEPT !.selections[i] = Selection_show(@)])
    \/ SelectionCall("selection.hide", SM.selections[i].uid, i,
                     [SM EXCEPT !.selections[i] = Selection_hide(@)])

\* the callback of widget i's setTimeout(() => this.showTooltip(), 0)
ShowTooltipTimeout(i) ==
  /\ CM.widgets[i].pendingShow > 0
  /\ cursorManager' = [cursorManager EXCEPT !["A"].widgets[i] = showTooltip(@)]
  /\ lastOp' = OpRet("showTooltip", "A", CM.widgets[i].uid, i)
  /\ UNCHANGED <<selectionManager, steps>>
  /\ Frame

\* the callback of widget i's auto-hide timeout
HideTimeout(i) ==
  /\ CM.widgets[i].timers > 0
  /\ cursorManager' = [cursorManager EXCEPT !["A"].widgets[i] = hideTimerFired(@)]
  /\ lastOp' = OpRet("hideTimer", "A", CM.widgets[i].uid, i)
  /\ UNCHANGED <<selectionManager, steps>>
  /\ Frame

NextOverlay ==
  \/ CursorManagerCall
  \/ WidgetCall
  \/ SelectionManagerCall
  \/ RemoteSelectionCall
  \/ \E i \in 1..Len(CM.widgets) : ShowTooltipTimeout(i)
  \/ \E i \in 1..Len(CM.widgets) : HideTimeout(i)

SpecOverlay == InitOverlay /\ [][NextOverlay]_vars

\* =================================================================== claims
IsEdit(m)  == inflate(m.message).messageType = "CodeSnippet"
EditOf(m)  == inflate(m.message).data

\* this step is the receiver handling envelope m at controller c: m has one
\* more delivery afterwards
Handles(c, m) ==
  /\ lastOp'.op = "receiver" /\ lastOp'.c = c /\ m.to = c
  /\ \E n \in channel' \ channel :
       /\ n.deliveries = m.deliveries + 1
       /\ [n EXCEPT !.deliveries = m.deliveries, !.applied = m.applied] = m

\* the envelopes a step of controller c can be handling
Inbound(c) == {m \in channel \cup EnvEnvelopes : m.to = c}

\* no overlay that exists before the step has another position after it
OverlaysStay(c) ==
  /\ \A i \in 1..Len(cursorManager[c].widgets) :
       /\ cursorManager'[c].widgets[i].position = cursorManager[c].widgets[i].position
       /\ cursorManager'[c].widgets[i].layout   = cursorManager[c].widgets[i].layout
  /\ \A i \in 1..Len(selectionManager[c].selections) :
       /\ selectionManager'[c].selections[i].startPosition
            = selectionManager[c].selections[i].startPosition
       /\ selectionManager'[c].selections[i].endPosition
            = selectionManager[c].selections[i].endPosition
       /\ selectionManager'[c].selections[i].decorations
            = selectionManager[c].selections[i].decorations

\* C1. Stale edit rejection: when the receiver handles an envelope that has a
\* sender id and carries an edit whose version is at most the local document
\* version, the text and the version stay as they are and no existing cursor or
\* selection overlay moves.
C1_StaleEditRejected ==
  [][\A m \in Inbound("A") :
       (Handles("A", m) /\ m.uid # NoUid /\ IsEdit(m)
          /\ EditOf(m).versionId <= versionId["A"])
       => (text' = text /\ versionId' = versionId /\ OverlaysStay("A"))]_vars

\* a stale edit of B was handled last, while B's cursor overlay had a position
C1_Witness ==
  /\ lastOp.op = "receiver" /\ lastOp.uid = "B"
  /\ \E m \in channel :
       /\ channel = {m}
       /\ IsEdit(m) /\ m.uid = "B" /\ m.applied = 1 /\ m.deliveries = 2
       /\ EditOf(m).versionId <= versionId["A"]
  /\ cursorManager["A"].cursorWidgets["B"] # 0
  /\ cursorManager["A"].widgets[cursorManager["A"].cursorWidgets["B"]].position # Null

\* C2. Monotonic acceptance: an inbound edit whose version is the local version
\* plus one is applied, and the local version afterwards is the edit's version
\* (so the next edit of an increasing sequence is accepted in its turn).
C2_MonotonicAcceptance ==
  [][\A m \in Inbound("A") :
       (Handles("A", m) /\ m.uid # NoUid /\ IsEdit(m)
          /\ EditOf(m).versionId = versionId["A"] + 1)
       => versionId'["A"] = EditOf(m).versionId]_vars

\* C3. No feedback loop: handling an inbound envelope never makes the
\* controller send an edit message.
C3_NoFeedbackLoop ==
  [][lastOp'.op = "receiver" =>
       sent'[lastOp'.c]["CodeSnippet"] = sent[lastOp'.c]["CodeSnippet"]]_vars

\* C4. Duplicate delivery is tolerated: however often an envelope is delivered,
\* at most one of its deliveries edits the text.
C4_DuplicateTolerated ==
  \A m \in channel : m.applied <= 1

\* C5. An edit is never re-applied by its originator: no envelope that carries
\* text typed by c's own user edits c's text when c receives it.
CarriesTextOf(m, c) ==
  /\ IsEdit(m)
  /\ \E k \in 1..Len(EditOf(m).changes) :
       \E j \in 1..Len(EditOf(m).changes[k].text) :
         EditOf(m).changes[k].text[j] = Token(c)

C5_NeverReappliedByOriginator ==
  \A c \in Controllers : \A m \in channel :
    (m.to = c /\ CarriesTextOf(m, c)) => m.applied = 0

\* overlays constructed so far for participant u
WidgetsBuilt(c, u) ==
  Cardinality({i \in 1..Len(cursorManager[c].widgets) : cursorManager[c].widgets[i].uid = u})
SelectionsBuilt(c, u) ==
  Cardinality({i \in 1..Len(selectionManager[c].selections) :
                 selectionManager[c].selections[i].uid = u})

\* C6. Idempotent overlay add, for both managers: an add for an id that has an
\* entry returns that entry's overlay and changes nothing (no overlay is
\* constructed, none changes); an add for an id without an entry constructs
\* exactly one overlay; and only an add constructs an overlay, only a remove or
\* a dispose takes an entry away. So adds for one id with no remove in between
\* construct exactly one overlay.
C6_IdempotentAdd ==
  [][/\ \A u \in Uids :
          /\ (lastOp'.op = "addCursor" /\ lastOp'.uid = u /\ steps' = steps + 1)
               => IF CM.cursorWidgets[u] # 0
                  THEN cursorManager' = cursorManager /\ lastOp'.ret = CM.cursorWidgets[u]
                  ELSE /\ WidgetsBuilt("A", u)' = WidgetsBuilt("A", u) + 1
                       /\ lastOp'.ret = Len(CM.widgets) + 1
                       /\ cursorManager'["A"].cursorWidgets[u] = lastOp'.ret
          /\ (lastOp'.op = "addSelection" /\ lastOp'.uid = u /\ steps' = steps + 1)
               => IF SM.remoteSelections[u] # 0
                  THEN selectionManager' = selectionManager
                       /\ lastOp'.ret = SM.remoteSelections[u]
                  ELSE /\ SelectionsBuilt("A", u)' = SelectionsBuilt("A", u) + 1
                       /\ lastOp'.ret = Len(SM.selections) + 1
                       /\ selectionManager'["A"].remoteSelections[u] = lastOp'.ret
          /\ WidgetsBuilt("A", u)' # WidgetsBuilt("A", u) => lastOp'.op = "addCursor"
          /\ SelectionsBuilt("A", u)' # SelectionsBuilt("A", u) => lastOp'.op = "addSelection"
          /\ (CM.cursorWidgets[u] # 0 /\ cursorManager'["A"].cursorWidgets[u] = 0)
               => lastOp'.op \in {"removeCursor", "widget.dispose"}
          /\ (SM.remoteSelections[u] # 0 /\ selectionManager'["A"].remoteSelections[u] = 0)
               => lastOp'.op \in {"removeSelection", "selection.dispose"}]_vars

\* the second add for B returned the selection the first one built, after it
\* had been given a range, and B's cursor was added twice as well
C6_Witness ==
  /\ lastOp.op = "addSelection" /\ lastOp.uid = "B" /\ lastOp.ret = 1
  /\ steps = 5
  /\ Len(SM.selections) = 1 /\ SM.selections[1].startPosition # Null
  /\ Len(CM.widgets) = 1 /\ CM.cursorWidgets["B"] = 1

\* C7. Idempotent overlay remove, for both managers: after remove(id), and
\* after a registered overlay's own dispose, the manager holds no entry for the id.
C7_IdempotentRemove ==
  /\ lastOp.op \in {"removeCursor", "widget.dispose"} => CM.cursorWidgets[lastOp.uid] = 0
  /\ lastOp.op \in {"removeSelection", "selection.dispose"}
       => SM.remoteSelections[lastOp.uid] = 0

\* live overlays of participant u at controller c that its manager holds
LiveCursor(c, u) ==
  /\ cursorManager[c].cursorWidgets[u] # 0
  /\ ~cursorManager[c].widgets[cursorManager[c].cursorWidgets[u]].disposed
LiveSelection(c, u) ==
  /\ selectionManager[c].remoteSelections[u] # 0
  /\ ~selectionManager[c].selections[selectionManager[c].remoteSelections[u]].disposed

LiveWidgets(c, u) ==
  {i \in 1..Len(cursorManager[c].widgets) :
     cursorManager[c].widgets[i].uid = u /\ ~cursorManager[c].widgets[i].disposed}
LiveSelections(c, u) ==
  {i \in 1..Len(selectionManager[c].selections) :
     selectionManager[c].selections[i].uid = u /\ ~selectionManager[c].selections[i].disposed}

\* C8. Participant presence: after a join notification or an inbound message of
\* participant u, u has exactly one live cursor overlay and exactly one live
\* selection overlay, both registered; after a leave notification u has none.
C8_Presence ==
  /\ (lastOp.op = "onMemberJoined" \/ (lastOp.op = "receiver" /\ lastOp.uid # NoUid))
       => /\ LiveCursor(lastOp.c, lastOp.uid)
          /\ LiveSelection(lastOp.c, lastOp.uid)
          /\ Cardinality(LiveWidgets(lastOp.c, lastOp.uid)) = 1
          /\ Cardinality(LiveSelections(lastOp.c, lastOp.uid)) = 1
  /\ lastOp.op = "onMemberLeft"
       => /\ LiveWidgets(lastOp.c, lastOp.uid) = {}
          /\ LiveSelections(lastOp.c, lastOp.uid) = {}

\* C9. The disposal callback fires at most once: every overlay's callback has
\* been invoked once if the overlay is disposed and never otherwise, whatever
\* was called on the overlay or its manager; and a dispose of a disposed
\* overlay changes nothing.
C9_DisposalCallbackOnce ==
  /\ [](/\ \A i \in 1..Len(CM.widgets) :
             CM.widgets[i].onDisposed = IF CM.widgets[i].disposed THEN 1 ELSE 0
        /\ \A i \in 1..Len(SM.selections) :
             SM.selections[i].onDisposed = IF SM.selections[i].disposed THEN 1 ELSE 0)
  /\ [][/\ (lastOp'.op = "widget.dispose" /\ steps' = steps + 1
              /\ CM.widgets[lastOp'.ret].disposed)
             => cursorManager' = cursorManager
        /\ (lastOp'.op = "selection.dispose" /\ steps' = steps + 1
              /\ SM.selections[lastOp'.ret].disposed)
             => selectionManager' = selectionManager]_vars

\* a widget was disposed, then given a position (which the editor no longer
\* lays out), then disposed again
C9_Witness ==
  /\ lastOp.op = "widget.dispose"
  /\ CM.widgets[lastOp.ret].disposed
  /\ CM.widgets[lastOp.ret].position # Null
  /\ CM.widgets[lastOp.ret].layout = Null
  /\ CM.widgets[lastOp.ret].onDisposed = 1

\* C10. Tooltip timers are cancelled on disposal: a disposed cursor overlay has
\* no deferred show-tooltip callback and no auto-hide timer pending.
C10_TimersCancelledOnDispose ==
  \A i \in 1..Len(CM.widgets) :
    CM.widgets[i].disposed => (CM.widgets[i].pendingShow = 0 /\ CM.widgets[i].timers = 0)

\* the manager methods that act on the overlay registered under an id
CursorSetters    == {"setCursorPosition", "setCursorOffset", "showCursor", "hideCursor"}
SelectionSetters == {"setSelectionPositions", "setSelectionOffsets",
                     "showSelection", "hideSelection"}

\* the caller has no cursor registered under u: none was added, or every one
\* added was removed or disposed since
CursorNotRegistered(u) == LiveWidgets("A", u) = {}

\* the caller has no selection registered under u: none was added, or the
\* call before this one removed or disposed it
SelectionNotRegistered(u) ==
  \/ SelectionsBuilt("A", u) = 0
  \/ lastOp.op \in {"removeSelection", "selection.dispose"} /\ lastOp.uid = u

\* C11. Manager operations on an id that is not registered are no-ops: a
\* setPosition, setOffset, show or hide call of either manager with an id that
\* was never added, or was added and then removed, changes no overlay.
C11_UnregisteredNoOp ==
  [][\A u \in OverlayUids :
       /\ (lastOp'.op \in CursorSetters /\ lastOp'.uid = u /\ steps' = steps + 1
             /\ CursorNotRegistered(u))
            => cursorManager' = cursorManager
       /\ (lastOp'.op \in SelectionSetters /\ lastOp'.uid = u /\ steps' = steps + 1
             /\ SelectionNotRegistered(u))
            => selectionManager' = selectionManager]_vars

\* text t with x inserted at offset o
InsertAt(t, o, x) == SubSeq(t, 1, o) \o x \o SubSeq(t, o + 1, Len(t))

\* change ch is an insertion whose range and offset name the same place of text t
IsInsertionInto(ch, t) ==
  /\ ch.rangeLength = 0
  /\ RangeStart(ch.range) = RangeEnd(ch.range)
  /\ validatePosition(t, RangeStart(ch.range)) = RangeStart(ch.range)
  /\ getOffsetAt(t, RangeStart(ch.range)) = ch.rangeOffset

\* the changes of an edit of text t, as the editor of the sender reports them:
\* insertions, from the last place in the text to the first
InsertionsInto(changes, t) ==
  /\ \A k \in 1..Len(changes) : IsInsertionInto(changes[k], t)
  /\ \A k \in 1..Len(changes) - 1 : changes[k].rangeOffset > changes[k + 1].rangeOffset

\* the cursor widget registered for participant u at controller A, after the step
SenderWidgetAfter(u) ==
  cursorManager'["A"].widgets[cursorManager'["A"].cursorWidgets[u]]

\* C12. Applying a fresh remote edit: when controller A at version V handles an
\* envelope with a sender id and an edit of version V + 1 whose changes are
\* insertions into A's text, then with one change (text t at offset o) the text
\* afterwards is the old text with t at offset o, the version is V + 1 and the
\* sender's cursor widget is laid out at offset o + Len(t); with two changes the
\* text is the old text with the changes applied in the order carried, and the
\* sender's cursor widget is at the offset after the text of the last change.
C12_FreshEditApplied ==
  [][\A m \in Inbound("A") :
       (Handles("A", m) /\ m.uid # NoUid /\ IsEdit(m)
          /\ EditOf(m).versionId = versionId["A"] + 1
          /\ InsertionsInto(EditOf(m).changes, text["A"]))
       => LET ch   == EditOf(m).changes
              n    == Len(ch)
              last == ch[n]
              w    == SenderWidgetAfter(m.uid)
          IN /\ n = 1 => /\ text'["A"] = InsertAt(text["A"], ch[1].rangeOffset, ch[1].text)
                         /\ versionId'["A"] = versionId["A"] + 1
             /\ n = 2 => text'["A"] = InsertAt(InsertAt(text["A"], ch[1].rangeOffset, ch[1].text),
                                               ch[2].rangeOffset, ch[2].text)
             /\ SubSeq(text'["A"], last.rangeOffset + 1, last.rangeOffset + Len(last.text))
                  = last.text
             /\ cursorManager'["A"].cursorWidgets[m.uid] # 0
             /\ ~w.disposed
             /\ w.position = w.layout
             /\ getOffsetAt(text'["A"], w.position) = last.rangeOffset + Len(last.text)]_vars

\* the first event A handled was B's edit of version 2 with two insertions,
\* "bb" at offset 2 and "b" at offset 0; B's cursor is after the "b"
C12_Witness ==
  /\ steps = 1 /\ lastOp.op = "receiver" /\ lastOp.uid = "B"
  /\ \E m \in channel :
       /\ IsEdit(m) /\ m.applied = 1
       /\ EditOf(m).versionId = InitialVersion + 1
       /\ Len(EditOf(m).changes) = 2
  /\ text["A"] = <<"b", "x", NL, "b", "b", "y">>
  /\ cursorManager["A"].widgets[cursorManager["A"].cursorWidgets["B"]].position = Position(1, 2)

\* C13. Outbound version guard: the content-change listener, while it is
\* subscribed, sends exactly one edit message when the version of the event it
\* is handed is not lower than the document's version and nothing when it is
\* lower; and when a remote edit is applied, each change's event (of the
\* version the model then has) is sent once.
C13_OutboundVersionGuard ==
  [][/\ (lastOp'.op = "onDidChangeModelContent" /\ disposer[lastOp'.c])
          => IF lastOp'.ret >= versionId'[lastOp'.c]
             THEN /\ sent'[lastOp'.c]["CodeSnippet"] = sent[lastOp'.c]["CodeSnippet"] + 1
                  /\ SentCount(sent'[lastOp'.c]) = SentCount(sent[lastOp'.c]) + 1
             ELSE sent' = sent /\ channel' = channel
     /\ \A m \in Inbound("A") :
          Handles("A", m)
            => IF \E n \in channel' : n.applied = m.applied + 1
                     /\ [n EXCEPT !.deliveries = m.deliveries, !.applied = m.applied] = m
                    /\ disposer["A"]
               THEN SentCount(sent'["A"]) = SentCount(sent["A"]) + Len(EditOf(m).changes)
               ELSE sent' = sent]_vars

\* the listener sent the user's two edits and then discarded an event of
\* version 2 that reached it when the document was at version 3
C13_Witness ==
  /\ lastOp.op = "onDidChangeModelContent" /\ lastOp.ret = InitialVersion + 1
  /\ versionId["A"] = InitialVersion + 2
  /\ localEvents["A"] = 3
  /\ sent["A"]["CodeSnippet"] = 2

\* C14. A malformed envelope is discarded: when the receiver handles an
\* envelope without a sender id, the text, the version, both managers with all
\* their overlays and the messages sent stay as they are.
C14_MalformedDiscarded ==
  [][\A m \in Inbound("A") :
       (Handles("A", m) /\ m.uid = NoUid)
       => /\ text' = text /\ versionId' = versionId
          /\ cursorManager' = cursorManager
          /\ selectionManager' = selectionManager
          /\ sent' = sent
          /\ \A n \in channel' \ channel : n.uid = NoUid /\ n.applied = m.applied]_vars

\* an envelope without a sender id, whose edit is newer than the document, was
\* handled last and edited nothing, while B's cursor widget had a position
C14_Witness ==
  /\ lastOp.op = "receiver" /\ lastOp.uid = NoUid
  /\ \E m \in channel :
       /\ m.uid = NoUid /\ m.deliveries = 1 /\ m.applied = 0
       /\ IsEdit(m) /\ EditOf(m).versionId > versionId["A"]
  /\ cursorManager["A"].cursorWidgets["B"] # 0
  /\ cursorManager["A"].widgets[cursorManager["A"].cursorWidgets["B"]].position # Null

\* C15. Local-only degradation: a controller constructed without a channel has
\* no overlay managers, none of its listeners ever runs, and it sends nothing,
\* whatever its local user edits, selects or moves.
C15_LocalOnly ==
  /\ lastOp.op = "constructor"
  /\ channel = {}
  /\ \A c \in Controllers :
       /\ cursorManager[c] = Undefined
       /\ selectionManager[c] = Undefined
       /\ SentCount(sent[c]) = 0

\* A's user made two edits and two cursor or selection changes
C15_Witness ==
  /\ localEvents["A"] = 4
  /\ versionId["A"] = InitialVersion + 2
  /\ text["A"] # InitText
  /\ "A" \notin members

\* positions of a three by three grid, and their order in the text: by line
\* first, then by column
GridPositions == {Position(l, c) : l \in 1..3, c \in 1..3}
TextOrder(a, b) == a.lineNumber * 4 + a.column <= b.lineNumber * 4 + b.column

\* C16. Range normalization: swapIfNeeded(a, b) is (a, b) when a is before or
\* equal to b in the text and (b, a) otherwise, so equal positions stay as
\* they are; and whatever was called, no selection's stored start is after its
\* stored end, and a rendered decoration spans exactly the stored range.
C16_RangeNormalized ==
  /\ \A a \in GridPositions, b \in GridPositions :
       swapIfNeeded(a, b) = IF TextOrder(a, b) THEN [start |-> a, end |-> b]
                            ELSE [start |-> b, end |-> a]
  /\ \A i \in 1..Len(SM.selections) :
       LET sel == SM.selections[i]
       IN /\ (sel.startPosition = Null) = (sel.endPosition = Null)
          /\ sel.startPosition # Null => TextOrder(sel.startPosition, sel.endPosition)
          /\ sel.decorations # NoRange
               => sel.decorations = <<[start |-> sel.startPosition, end |-> sel.endPosition]>>

\* B's selection spans two lines, C's is a zero-width range that a
\* setOffsets call has just set, and both are rendered
C16_Witness ==
  /\ lastOp.op \in {"selection.setOffsets", "setSelectionOffsets"} /\ lastOp.uid = "C"
  /\ SM.remoteSelections["B"] # 0 /\ SM.remoteSelections["C"] # 0
  /\ SM.selections[SM.remoteSelections["B"]].decorations
       = <<[start |-> Position(1, 2), end |-> Position(2, 1)]>>
  /\ SM.selections[SM.remoteSelections["C"]].decorations
       = <<[start |-> Position(2, 1), end |-> Position(2, 1)]>>

\* C17. Disposed is a terminal overlay state: in every state a disposed
\* selection holds no decoration in the editor, and a disposed cursor widget is
\* not among the editor's content widgets.
C17_DisposedTerminal ==
  /\ \A i \in 1..Len(SM.selections) :
       SM.selections[i].disposed => SM.selections[i].decorations = NoRange
  /\ \A i \in 1..Len(CM.widgets) :
       CM.widgets[i].disposed => ~CM.widgets[i].inEditor

\* C18. Tooltip auto-hide timers are reset, not stacked: a cursor widget has at
\* most one auto-hide timeout pending, the one whose handle it holds, and its
\* tooltip is visible exactly while that timeout is pending; showTooltip run
\* while the tooltip is visible leaves it visible with one timeout pending, and
\* the timeout's callback hides the tooltip and leaves no timeout behind.
C18_TimersReset ==
  /\ [](\A i \in 1..Len(CM.widgets) :
          /\ CM.widgets[i].timers = IF CM.widgets[i].hideTimer THEN 1 ELSE 0
          /\ CM.widgets[i].tooltipVisible = CM.widgets[i].hideTimer)
  /\ [][/\ (lastOp'.op = "showTooltip" /\ steps' = steps
              /\ CM.widgets[lastOp'.ret].pendingShow
                   = cursorManager'["A"].widgets[lastOp'.ret].pendingShow + 1)
             => /\ cursorManager'["A"].widgets[lastOp'.ret].tooltipVisible
                /\ cursorManager'["A"].widgets[lastOp'.ret].timers = 1
        /\ (lastOp'.op = "hideTimer" /\ steps' = steps
              /\ CM.widgets[lastOp'.ret].timers
                   = cursorManager'["A"].widgets[lastOp'.ret].timers + 1)
             => /\ ~cursorManager'["A"].widgets[lastOp'.ret].tooltipVisible
                /\ cursorManager'["A"].widgets[lastOp'.ret].timers = 0]_vars

\* B's widget got two positions; the first deferred showTooltip made the
\* tooltip visible and the second, run last, restarted the timeout
C18_Witness ==
  /\ lastOp.op = "showTooltip" /\ lastOp.uid = "B"
  /\ steps = 3
  /\ Len(CM.widgets) = 1
  /\ CM.widgets[1].pendingShow = 0
  /\ CM.widgets[1].tooltipVisible /\ CM.widgets[1].timers = 1
  /\ ~CM.widgets[1].disposed

\* the overlay a show or hide call is made on: the one the call names, or the
\* one its manager holds under the id
CursorTarget(i) ==
  IF lastOp'.op \in {"widget.show", "widget.hide"} THEN lastOp'.ret = i
  ELSE CM.cursorWidgets[lastOp'.uid] = i
SelectionTarget(i) ==
  IF lastOp'.op \in {"selection.show", "selection.hide"} THEN lastOp'.ret = i
  ELSE SM.remoteSelections[lastOp'.uid] = i

\* C19. Hide and show preserve position: a hide or show call, on an overlay or
\* through its manager, changes no stored position; on an overlay that is not
\* disposed, hide takes the overlay from view and show puts it in view at the
\* stored position, or renders nothing when no position was ever set.
C19_HideShowKeepPosition ==
  [][steps' = steps + 1 =>
       /\ lastOp'.op \in {"hideCursor", "widget.hide", "showCursor", "widget.show"}
            => \A i \in 1..Len(CM.widgets) :
                 /\ cursorManager'["A"].widgets[i].position = CM.widgets[i].position
                 /\ cursorManager'["A"].widgets[i].layout = CM.widgets[i].layout
                 /\ (CursorTarget(i) /\ ~CM.widgets[i].disposed)
                      => /\ cursorManager'["A"].widgets[i].display
                              = IF lastOp'.op \in {"hideCursor", "widget.hide"}
                                THEN "none" ELSE "inherit"
                         /\ CM.widgets[i].layout = CM.widgets[i].position
       /\ lastOp'.op \in {"hideSelection", "selection.hide", "showSelection", "selection.show"}
            => \A i \in 1..Len(SM.selections) :
                 /\ selectionManager'["A"].selections[i].startPosition
                      = SM.selections[i].startPosition
                 /\ selectionManager'["A"].selections[i].endPosition
                      = SM.selections[i].endPosition
                 /\ (SelectionTarget(i) /\ ~SM.selections[i].disposed)
                      => selectionManager'["A"].selections[i].decorations
                           = IF lastOp'.op \in {"hideSelection", "selection.hide"}
                                \/ SM.selections[i].startPosition = Null
                             THEN NoRange
                             ELSE <<[start |-> SM.selections[i].startPosition,
                                     end   |-> SM.selections[i].endPosition]>>]_vars

\* B's selection was given a range, hidden, and the show call made last
\* rendered it again over that range
C19_Witness ==
  /\ steps = 4
  /\ lastOp.op \in {"showSelection", "selection.show"} /\ lastOp.uid = "B"
  /\ Len(SM.selections) = 1 /\ Len(CM.widgets) = 0
  /\ ~SM.selections[1].disposed
  /\ SM.selections[1].decorations = <<[start |-> Position(1, 2), end |-> Position(2, 1)]>>

KindOf(m) == inflate(m.message).messageType

\* the overlays that exist before the step and are not participant u's stay
\* as they are
OthersStay(u) ==
  /\ \A i \in 1..Len(CM.widgets) :
       CM.widgets[i].uid # u => cursorManager'["A"].widgets[i] = CM.widgets[i]
  /\ \A i \in 1..Len(SM.selections) :
       SM.selections[i].uid # u => selectionManager'["A"].selections[i] = SM.selections[i]

\* C20. Inbound cursor and selection messages touch only the sender's overlay:
\* when the receiver handles a CursorPosition of participant u, u's cursor
\* widget is at the carried position (as the text allows it) and every
\* selection that existed stays; when it handles a CursorSelection, u's
\* selection has the carried end points in text order and every cursor widget
\* that existed stays; in both cases the text, the version and the overlays of
\* the other participants stay, and nothing is sent.
C20_OnlySendersOverlay ==
  [][\A m \in Inbound("A") :
       (Handles("A", m) /\ m.uid # NoUid
          /\ KindOf(m) \in {"CursorPosition", "CursorSelection"})
       => /\ text' = text /\ versionId' = versionId /\ sent' = sent
          /\ \A n \in channel' \ channel : n.uid = m.uid /\ n.applied = m.applied
          /\ OthersStay(m.uid)
          /\ KindOf(m) = "CursorPosition"
               => /\ SenderWidgetAfter(m.uid).position
                       = validatePosition(text["A"], EditOf(m).position)
                  /\ \A i \in 1..Len(SM.selections) :
                       selectionManager'["A"].selections[i] = SM.selections[i]
          /\ KindOf(m) = "CursorSelection"
               => /\ LET sel == selectionManager'["A"].selections[
                                  selectionManager'["A"].remoteSelections[m.uid]]
                         a   == Position(EditOf(m).selection.selectionStartLineNumber,
                                         EditOf(m).selection.selectionStartColumn)
                         b   == Position(EditOf(m).selection.positionLineNumber,
                                         EditOf(m).selection.positionColumn)
                     IN {sel.startPosition, sel.endPosition}
                          = {validatePosition(text["A"], a), validatePosition(text["A"], b)}
                        /\ TextOrder(sel.startPosition, sel.endPosition)
                  /\ \A i \in 1..Len(CM.widgets) :
                       cursorManager'["A"].widgets[i] = CM.widgets[i]]_vars

\* A handled C's cursor position and then B's: each participant's widget is
\* where its own message put it
C20_Witness ==
  /\ steps = 2 /\ lastOp.op = "receiver" /\ lastOp.uid = "B"
  /\ Cardinality(channel) = 2
  /\ \A m \in channel : KindOf(m) = "CursorPosition" /\ m.deliveries = 1
  /\ cursorManager["A"].widgets[cursorManager["A"].cursorWidgets["C"]].position = Position(1, 2)
  /\ cursorManager["A"].widgets[cursorManager["A"].cursorWidgets["B"]].position = Position(2, 1)

\* C21. An unknown message kind is ignored: when the receiver handles an
\* envelope with a sender id whose message is of no kind the controller knows,
\* the text, the version and the messages sent stay as they are, every overlay
\* that exists stays as it is, and an overlay created for the sender has no
\* position.
C21_UnknownKindIgnored ==
  [][\A m \in Inbound("A") :
       (Handles("A", m) /\ m.uid # NoUid /\ KindOf(m) \notin Kinds)
       => /\ text' = text /\ versionId' = versionId /\ sent' = sent
          /\ \A n \in channel' \ channel : n.uid = m.uid /\ n.applied = m.applied
          /\ \A i \in 1..Len(cursorManager'["A"].widgets) :
               IF i <= Len(CM.widgets)
               THEN cursorManager'["A"].widgets[i] = CM.widgets[i]
               ELSE cursorManager'["A"].widgets[i].position = Null
          /\ \A i \in 1..Len(selectionManager'["A"].selections) :
               IF i <= Len(SM.selections)
               THEN selectionManager'["A"].selections[i] = SM.selections[i]
               ELSE selectionManager'["A"].selections[i].decorations = NoRange]_vars

\* A handled B's message of an unknown kind first and B's cursor position
\* after it: B's widget, created by the first, is where the second put it
C21_Witness ==
  /\ steps = 2 /\ lastOp.op = "receiver" /\ lastOp.uid = "B"
  /\ Cardinality(channel) = 2
  /\ \E m \in channel : KindOf(m) \notin Kinds /\ m.uid = "B" /\ m.deliveries = 1
  /\ \E m \in channel : KindOf(m) = "CursorPosition" /\ m.uid = "B" /\ m.deliveries = 1
  /\ Len(cursorManager["A"].widgets) = 1
  /\ cursorManager["A"].widgets[1].position = Position(2, 1)

\* C22. Controller disposal: dispose() releases the content-change
\* subscription and changes nothing else, so every overlay stays registered
\* and as it is; disposing again, or disposing a controller built without a
\* channel, changes nothing at all; and while the subscription is released no
\* step makes the controller send an edit message.
C22_Disposal ==
  /\ [](lastOp.op = "dispose" => ~disposer[lastOp.c])
  /\ [][/\ (lastOp'.op = "dispose" /\ steps' = steps + 1 /\ localEvents' = localEvents)
             => /\ cursorManager' = cursorManager
                /\ selectionManager' = selectionManager
                /\ text' = text /\ versionId' = versionId
                /\ sent' = sent /\ channel' = channel
                /\ ~disposer[lastOp'.c] => disposer' = disposer
        /\ \A c \in Controllers :
             ~disposer[c] => sent'[c]["CodeSnippet"] = sent[c]["CodeSnippet"]]_vars

\* B joined, A was disposed twice, and then A's user edited the text: nothing
\* was sent, and B's overlays are registered and live
C22_Witness ==
  /\ steps = 4 /\ lastOp.op = "dispose" /\ lastOp.c = "A"
  /\ ~disposer["A"]
  /\ localEvents["A"] = 1 /\ text["A"] # InitText
  /\ sent["A"]["CodeSnippet"] = 0
  /\ LiveCursor("A", "B") /\ LiveSelection("A", "B")

\* C23. A disposed controller is silent: once a controller that had a channel
\* is disposed, no step makes it send a message of any kind or changes its
\* managers and overlays, and only its local user changes its text.
C23_DisposedSilent ==
  [][\A c \in Controllers :
       (Subscribed(c) /\ ~disposer[c])
       => /\ sent'[c] = sent[c]
          /\ cursorManager'[c] = cursorManager[c]
          /\ selectionManager'[c] = selectionManager[c]
          /\ localEvents' = localEvents => (text'[c] = text[c] /\ versionId'[c] = versionId[c])]_vars

\* edit messages sent, and local edits made, by all controllers
EditsSent  == sent["A"]["CodeSnippet"] + sent["B"]["CodeSnippet"]
EditsMade  == localEvents["A"] + localEvents["B"]
InFlight   == {m \in channel : m.deliveries = 0}

\* C24. Quiescence: with a channel that eventually delivers every envelope,
\* the edit messages sent are at most four for each local edit (an edit of the
\* local user has two changes at most here), and eventually no envelope is in
\* flight any more, for good.
C24_Quiescence ==
  /\ [](EditsSent <= 4 * EditsMade)
  /\ <>[](InFlight = {})

\* a local edit with two insertions has bounced between the controllers: four
\* edit messages were sent, all are delivered, none is in flight
C24_Witness ==
  /\ EditsMade = 1 /\ EditsSent = 4
  /\ Cardinality(channel) = 4
  /\ InFlight = {}
  /\ versionId["A"] = versionId["B"]

====
